---- MODULE Spec2Model ----
(***************************************************************************)
(* Conway's Game of Life in a curses terminal                              *)
(* (src/game_of_life/game_of_life.py): the sparse Board, the Screen that   *)
(* maps the unbounded grid onto the terminal window, and the GameOfLife    *)
(* session that dispatches one key at a time.                              *)
(*                                                                         *)
(* A Point or Vector is the pair <<row, col>>.  A string is the sequence   *)
(* of its characters.  The terminal (curses stdscr) is modelled by its     *)
(* cursor, its extent and the set of positions that show CELL_CHAR.        *)
(***************************************************************************)
EXTENDS Integers, Sequences, FiniteSets, TLC

VARIABLES
    cell_positions,  \* Board.cell_positions: the set of its keys (every value is True)
    origin,          \* Screen.origin
    saved_cursor,    \* Screen.saved_cursor
    mode,            \* GameOfLife.mode
    maxyx,           \* stdscr.getmaxyx(): <<rows, cols>>, read once by Screen.__init__
    yx,              \* stdscr.getyx(): the terminal cursor
    window,          \* stdscr contents: the positions that show CELL_CHAR
    save_file,       \* the file SAVE_FILENAME: NoFile, or the text of its first line
    input_key,       \* start(): the key last read by get_input_key()
    status,          \* start(): "running", "stopped" (quit) or "raised" (an exception left the loop)
    exc,             \* the exception that left the loop, or NoExc
    nkeys,           \* number of keys read so far in this session
    last_saved,      \* history: whether a save command has run, and the live set at the latest one
    record_log,      \* the record log: the snapshots appended so far, oldest first
    b_op,            \* Board interface: the method last called, with its argument
    b_prev,          \* history: cell_positions before the last Board call or command
    b_ret,           \* Board interface: what the call returned, or the exception it raised
    before           \* history: the session's fields before the last command, and whether
                     \* the last command (or Board call) repeated the one before it

vars == <<cell_positions, origin, saved_cursor, mode, maxyx, yx, window,
          save_file, input_key, status, exc, nkeys, last_saved, record_log,
          b_op, b_prev, b_ret, before>>

-----------------------------------------------------------------------------
(* Bounds of the model.                                                    *)

\* Keys read in one session.
MaxKeys == 6

\* Terminal sizes stdscr.getmaxyx() may report at startup.
Extents == {<<2, 2>>, <<2, 3>>}

\* Rows and columns of the boards the Board interface is exercised on.
BoardCoords == -1..1

-----------------------------------------------------------------------------
(* Points, vectors and the Board.                                          *)

Point(row, col) == <<row, col>>

Vector(row, col) == <<row, col>>

Translate(p, v) == Point(p[1] + v[1], p[2] + v[2])

CELL_CHAR == "o"

BLANK_CHAR == " "

NEIGHBOUR_TRANFORMS ==
    << Vector(-1, -1), Vector(-1, 0), Vector(-1, 1),
       Vector(0, -1), Vector(0, 1),
       Vector(1, -1), Vector(1, 0), Vector(1, 1) >>

cell_at(cells, point) == point \in cells

empty_neighbour_set(cells) ==
    LET all_neighbours ==
            { Translate(p, NEIGHBOUR_TRANFORMS[i]) :
                  p \in cells, i \in DOMAIN NEIGHBOUR_TRANFORMS }
    IN  { n \in all_neighbours : ~cell_at(cells, n) }

\* live_neighbours_count with the point itself among its neighbours.
live_neighbours_count_self(cells, point) ==
    Cardinality({ i \in DOMAIN NEIGHBOUR_TRANFORMS :
                      cell_at(cells, Translate(point, NEIGHBOUR_TRANFORMS[i])) })
        + (IF cell_at(cells, point) THEN 1 ELSE 0)

live_neighbours_count(cells, point) ==
    Cardinality({ i \in DOMAIN NEIGHBOUR_TRANFORMS :
                      cell_at(cells, Translate(point, NEIGHBOUR_TRANFORMS[i])) })

\* Board.add_cell without the cell_at test: the key is set and True returned.
Board_add_cell_unchecked(cells, point) ==
    [cells |-> cells \cup {point}, ret |-> TRUE]

\* Board.remove_cell without the cell_at test: the key is dropped and True returned.
Board_remove_cell_unchecked(cells, point) ==
    [cells |-> cells \ {point}, ret |-> TRUE]

\* Board.add_cell: the new key set and the returned flag.
Board_add_cell(cells, point) ==
    IF ~cell_at(cells, point)
    THEN [cells |-> cells \cup {point}, ret |-> TRUE]
    ELSE [cells |-> cells, ret |-> FALSE]

\* Board.remove_cell: the new key set and the returned flag.
Board_remove_cell(cells, point) ==
    IF cell_at(cells, point)
    THEN [cells |-> cells \ {point}, ret |-> TRUE]
    ELSE [cells |-> cells, ret |-> FALSE]

\* Board.step with the dead candidates taken inside the bounding box of the live cells.
Board_step_boxed(cells) ==
    LET inBox(e) == /\ \E p \in cells : p[1] <= e[1]
                    /\ \E p \in cells : p[1] >= e[1]
                    /\ \E p \in cells : p[2] <= e[2]
                    /\ \E p \in cells : p[2] >= e[2]
        survivors == { p \in cells :
                           \/ live_neighbours_count(cells, p) = 2
                           \/ live_neighbours_count(cells, p) = 3 }
        births    == { e \in empty_neighbour_set(cells) :
                           inBox(e) /\ live_neighbours_count(cells, e) = 3 }
    IN  survivors \cup births

\* Board.step: the survivors of the live cells and the births on the empty neighbours.
Board_step(cells) ==
    LET survivors == { p \in cells :
                           \/ live_neighbours_count(cells, p) = 2
                           \/ live_neighbours_count(cells, p) = 3 }
        births    == { e \in empty_neighbour_set(cells) :
                           live_neighbours_count(cells, e) = 3 }
    IN  survivors \cup births

-----------------------------------------------------------------------------
(* Snapshot text.  json.dumps writes a JSON object whose keys are          *)
(* "{row},{col}" strings and whose values are true; json.loads gives the   *)
(* keys back.  A text is modelled by what json.loads makes of it: an       *)
(* object with its keys in the order they are written, or no JSON at all,  *)
(* or JSON that is not an object.  The order of a dict's keys is not       *)
(* tracked by the model, so serialize_board lists them sorted.             *)

NoExc == "none"

Digits == <<"0", "1", "2", "3", "4", "5", "6", "7", "8", "9">>

RECURSIVE NatToStr(_)
\* "{}".format(n) for n >= 0: the decimal digits, most significant first.
NatToStr(n) ==
    IF n < 10 THEN <<Digits[n + 1]>>
    ELSE NatToStr(n \div 10) \o <<Digits[(n % 10) + 1]>>

\* "{}".format(n) with the sign lost.
IntToStr_unsigned(n) == IF n < 0 THEN NatToStr(-n) ELSE NatToStr(n)

\* "{}".format(n) for an int.
IntToStr(n) == IF n < 0 THEN <<"-">> \o NatToStr(-n) ELSE NatToStr(n)

\* "{0},{1}".format(position.row, position.col)
FormatKey(position) == IntToStr(position[1]) \o <<",">> \o IntToStr(position[2])

IsDigit(ch) == \E i \in DOMAIN Digits : Digits[i] = ch

DigitValue(ch) == (CHOOSE i \in DOMAIN Digits : Digits[i] = ch) - 1

RECURSIVE DigitsValue(_)
DigitsValue(s) ==
    IF s = <<>> THEN 0
    ELSE 10 * DigitsValue(SubSeq(s, 1, Len(s) - 1)) + DigitValue(s[Len(s)])

\* The digits of a numeral, its sign dropped.
Unsigned(s) == IF s # <<>> /\ s[1] \in {"-", "+"} THEN Tail(s) ELSE s

\* int(x) succeeds: an optional sign and at least one digit.
IntOk(s) ==
    /\ Unsigned(s) # <<>>
    /\ \A i \in DOMAIN Unsigned(s) : IsDigit(Unsigned(s)[i])

\* int(x)
ParseInt(s) ==
    IF s # <<>> /\ s[1] = "-" THEN -DigitsValue(Unsigned(s)) ELSE DigitsValue(Unsigned(s))

RECURSIVE Split(_)
\* position_str.split(','): the pieces between the commas.
Split(s) ==
    IF \E i \in DOMAIN s : s[i] = ","
    THEN LET i == CHOOSE j \in DOMAIN s : s[j] = "," /\ \A k \in 1..(j - 1) : s[k] # ","
         IN  <<SubSeq(s, 1, i - 1)>> \o Split(SubSeq(s, i + 1, Len(s)))
    ELSE <<s>>

PointLess(p, q) == p[1] < q[1] \/ (p[1] = q[1] /\ p[2] < q[2])

RECURSIVE SortedPoints(_)
SortedPoints(S) ==
    IF S = {} THEN <<>>
    ELSE LET m == CHOOSE p \in S : \A q \in S \ {p} : PointLess(p, q)
         IN  <<m>> \o SortedPoints(S \ {m})

JsonObject(keys) == [kind |-> "object", keys |-> keys]

\* Text that json.loads rejects (JSONDecodeError, a ValueError).
NotJson == [kind |-> "invalid", keys |-> <<>>]

\* Valid JSON that is no object, such as a list: it has no items().
NotAMap == [kind |-> "array", keys |-> <<>>]

\* Board.serialize_board
serialize_board(cells) ==
    LET positions == SortedPoints(cells)
    IN  JsonObject([i \in DOMAIN positions |-> FormatKey(positions[i])])

RECURSIVE LoadItems(_, _)
\* The loop of load_serialized_board over the keys still to be read.
LoadItems(cells, keys) ==
    IF keys = <<>> THEN [cells |-> cells, exc |-> NoExc]
    ELSE LET parts == Split(keys[1])
         IN  IF (\E i \in DOMAIN parts : ~IntOk(parts[i])) \/ Len(parts) # 2
             THEN [cells |-> cells, exc |-> "ValueError"]
             ELSE LoadItems(
                      Board_add_cell(cells, Point(ParseInt(parts[1]), ParseInt(parts[2]))).cells,
                      Tail(keys))

\* load_serialized_board without the reset of cell_positions: the snapshot is merged.
load_serialized_board_merge(cells, text) ==
    IF text.kind = "invalid" THEN [cells |-> cells, exc |-> "JSONDecodeError"]
    ELSE IF text.kind # "object" THEN [cells |-> cells, exc |-> "AttributeError"]
    ELSE LoadItems(cells, text.keys)

\* Board.load_serialized_board: the key set it leaves and the exception it raises.
\* The board is emptied before the text is parsed.
load_serialized_board(cells, text) ==
    IF text.kind = "invalid" THEN [cells |-> {}, exc |-> "JSONDecodeError"]
    ELSE IF text.kind # "object" THEN [cells |-> {}, exc |-> "AttributeError"]
    ELSE LoadItems({}, text.keys)

-----------------------------------------------------------------------------
(* The terminal window (curses stdscr) and the Screen.  A state st is a    *)
(* record of the session's fields; once st.exc is set an exception is      *)
(* propagating and the calls that follow are skipped.                      *)
(*                                                                         *)
(* curses: move() outside the window raises curses.error and leaves the    *)
(* cursor; addch() paints at the cursor and advances it, wrapping at the   *)
(* right margin, and in the lower-right corner it paints and then raises   *)
(* curses.error (the cursor cannot advance); erase() blanks the window     *)
(* and homes the cursor.                                                   *)

Raise(st, e) == [st EXCEPT !.exc = e]

InWindow(st, row, col) ==
    /\ 0 <= row /\ row < st.maxyx[1]
    /\ 0 <= col /\ col < st.maxyx[2]

\* stdscr.move that accepts a position outside the window.
stdscr_move_unchecked(st, row, col) ==
    IF st.exc # NoExc THEN st
    ELSE [st EXCEPT !.yx = Point(row, col)]

\* stdscr.move(row, col)
stdscr_move(st, row, col) ==
    IF st.exc # NoExc THEN st
    ELSE IF InWindow(st, row, col) THEN [st EXCEPT !.yx = Point(row, col)]
    ELSE Raise(st, "curses.error")

\* stdscr.addch(ch)
stdscr_addch(st, ch) ==
    IF st.exc # NoExc THEN st
    ELSE LET painted == [st EXCEPT !.window = IF ch = CELL_CHAR
                                              THEN @ \cup {st.yx}
                                              ELSE @ \ {st.yx}]
             row == st.yx[1]
             col == st.yx[2]
         IN  IF col + 1 < st.maxyx[2] THEN [painted EXCEPT !.yx = Point(row, col + 1)]
             ELSE IF row + 1 < st.maxyx[1] THEN [painted EXCEPT !.yx = Point(row + 1, 0)]
             ELSE Raise(painted, "curses.error")

\* Screen.clear that homes the cursor and leaves the glyphs.
Screen_clear_kept(st) ==
    IF st.exc # NoExc THEN st
    ELSE [st EXCEPT !.yx = Point(0, 0)]

\* Screen.clear: stdscr.erase()
Screen_clear(st) ==
    IF st.exc # NoExc THEN st
    ELSE [st EXCEPT !.window = {}, !.yx = Point(0, 0)]

\* Screen.__relative_point
relative_point(st, absolute_point) ==
    Point(absolute_point[1] - st.origin[1], absolute_point[2] - st.origin[2])

\* Screen.__absolute_point
absolute_point(st, relative) ==
    Point(relative[1] + st.origin[1], relative[2] + st.origin[2])

\* Screen.cursor_position: the absolute position of the terminal cursor.
cursor_position(st) == absolute_point(st, st.yx)

\* Screen.move_origin
Screen_move_origin(st, row_delta, col_delta) ==
    IF st.exc # NoExc THEN st
    ELSE [st EXCEPT !.origin = Point(st.origin[1] + row_delta, st.origin[2] + col_delta)]

\* Screen.move_cursor with no handler around stdscr.move: curses.error leaves it.
Screen_move_cursor_uncaught(st, row_delta, col_delta) ==
    IF st.exc # NoExc THEN st
    ELSE stdscr_move(st, st.yx[1] + row_delta, st.yx[2] + col_delta)

\* Screen.move_cursor: a move off the window is caught and ignored.
Screen_move_cursor(st, row_delta, col_delta) ==
    IF st.exc # NoExc THEN st
    ELSE LET moved == stdscr_move(st, st.yx[1] + row_delta, st.yx[2] + col_delta)
         IN  IF moved.exc = "curses.error" THEN st ELSE moved

\* Screen.save_cursor
Screen_save_cursor(st) ==
    IF st.exc # NoExc THEN st ELSE [st EXCEPT !.saved_cursor = st.yx]

\* Screen.restore_cursor
Screen_restore_cursor(st) ==
    IF st.exc # NoExc THEN st
    ELSE stdscr_move(st, st.saved_cursor[1], st.saved_cursor[2])

\* Screen.add_cell with the last row and the last column taken to be off the window.
Screen_add_cell_short(st, point) ==
    LET rel == relative_point(st, point)
        max_row == st.maxyx[1] - 1
        max_col == st.maxyx[2] - 1
    IN  IF st.exc # NoExc THEN st
        ELSE IF rel[1] >= max_row \/ rel[2] >= max_col \/ rel[1] < 0 \/ rel[2] < 0 THEN st
        ELSE Screen_restore_cursor(
                 stdscr_addch(
                     stdscr_move(Screen_save_cursor(st), rel[1], rel[2]),
                     CELL_CHAR))

\* Screen.add_cell: nothing is drawn for a point outside the window.
Screen_add_cell(st, point) ==
    LET rel == relative_point(st, point)
        max_row == st.maxyx[1] - 1
        max_col == st.maxyx[2] - 1
    IN  IF st.exc # NoExc THEN st
        ELSE IF rel[1] > max_row \/ rel[2] > max_col \/ rel[1] < 0 \/ rel[2] < 0 THEN st
        ELSE Screen_restore_cursor(
                 stdscr_addch(
                     stdscr_move(Screen_save_cursor(st), rel[1], rel[2]),
                     CELL_CHAR))

\* Screen.remove_cell without the restore_cursor() at its end.
Screen_remove_cell_unrestored(st, point) ==
    LET rel == relative_point(st, point)
    IN  stdscr_addch(
            stdscr_move(Screen_save_cursor(st), rel[1], rel[2]),
            BLANK_CHAR)

\* Screen.remove_cell: no bounds check of its own.
Screen_remove_cell(st, point) ==
    LET rel == relative_point(st, point)
    IN  Screen_restore_cursor(
            stdscr_addch(
                stdscr_move(Screen_save_cursor(st), rel[1], rel[2]),
                BLANK_CHAR))

-----------------------------------------------------------------------------
(* Commands and modes.                                                     *)

MOVE_KEYS == {"KEY_LEFT", "KEY_RIGHT", "KEY_UP", "KEY_DOWN"}

INSERT_MODE == "i"

NORMAL_MODE == "n"

PAN_MODE == "p"

INSERT_CELL == "c"

DELETE_CELL == "x"

QUIT == "q"

REFRESH == "r"

STEP == " "

SAVE_BOARD == "s"

LOAD_BOARD == "l"

\* Keys that Command binds to nothing; "R" stands for a record-mode key.
OtherKeys == {"z", "R"}

Keys ==
    MOVE_KEYS \cup {INSERT_MODE, NORMAL_MODE, PAN_MODE, INSERT_CELL, DELETE_CELL,
                    QUIT, REFRESH, STEP, SAVE_BOARD, LOAD_BOARD} \cup OtherKeys

\* Command.cursor_transform_for_command
cursor_transform_for_command(key) ==
    CASE key = "KEY_LEFT"  -> Vector(0, -1)
      [] key = "KEY_RIGHT" -> Vector(0, 1)
      [] key = "KEY_UP"    -> Vector(-1, 0)
      [] key = "KEY_DOWN"  -> Vector(1, 0)

\* class Mode
Modes == {"INSERT", "NORMAL", "PAN"}

-----------------------------------------------------------------------------
(* The GameOfLife session.  An operation gives the set of states it may    *)
(* leave: the order in which a dict yields its keys is not tracked, so     *)
(* refresh_screen draws the cells in any order.                            *)

\* The save file does not exist.
NoFile == [kind |-> "absent", keys |-> <<>>]

RECURSIVE Orderings(_)
\* The sequences that list each element of S once.
Orderings(S) ==
    IF S = {} THEN {<<>>}
    ELSE UNION { { <<x>> \o t : t \in Orderings(S \ {x}) } : x \in S }

RECURSIVE DrawAll(_, _)
\* refresh_screen: for point in self.board.cells: self.screen.add_cell(point)
DrawAll(st, points) ==
    IF points = <<>> THEN st
    ELSE DrawAll(Screen_add_cell(st, points[1]), Tail(points))

\* GameOfLife.add_cell
GameOfLife_add_cell(st, position) ==
    IF st.exc # NoExc THEN st
    ELSE Screen_add_cell(
             [st EXCEPT !.cell_positions = Board_add_cell(@, position).cells],
             position)

\* GameOfLife.remove_cell
GameOfLife_remove_cell(st, position) ==
    IF st.exc # NoExc THEN st
    ELSE Screen_remove_cell(
             [st EXCEPT !.cell_positions = Board_remove_cell(@, position).cells],
             position)

\* GameOfLife.refresh_screen.  Screen.add_cell returns at once for a point outside
\* the window, so the orders of the points inside it are the ones that differ.
refresh_screen(st) ==
    LET inside == { p \in st.cell_positions :
                        InWindow(st, relative_point(st, p)[1], relative_point(st, p)[2]) }
    IN  IF st.exc # NoExc THEN {st}
        ELSE { Screen_restore_cursor(
                   DrawAll(Screen_clear(Screen_save_cursor(st)), points)) :
                   points \in Orderings(inside) }

\* GameOfLife.step that also falls back to Normal mode.
GameOfLife_step_to_normal(st) ==
    refresh_screen([st EXCEPT !.cell_positions = Board_step(@), !.mode = "NORMAL"])

\* GameOfLife.step
GameOfLife_step(st) ==
    refresh_screen([st EXCEPT !.cell_positions = Board_step(@)])

\* GameOfLife.save_board
save_board(st) ==
    [st EXCEPT !.save_file = serialize_board(st.cell_positions)]

\* GameOfLife.load_board
load_board(st) ==
    IF st.save_file = NoFile THEN {Raise(st, "FileNotFoundError")}
    ELSE LET loaded == load_serialized_board(st.cell_positions, st.save_file)
             board  == [st EXCEPT !.cell_positions = loaded.cells]
         IN  IF loaded.exc # NoExc THEN {Raise(board, loaded.exc)}
             ELSE refresh_screen(board)

\* The branches of dispatch_user_command below the quit test.
dispatch_effects(st, key) ==
    LET transform == cursor_transform_for_command(key)
    IN  IF key \in MOVE_KEYS /\ st.mode = "NORMAL"
          THEN {Screen_move_cursor(st, transform[1], transform[2])}
        ELSE IF key \in MOVE_KEYS /\ st.mode = "INSERT"
          THEN {Screen_move_cursor(GameOfLife_add_cell(st, cursor_position(st)),
                                   transform[1], transform[2])}
        ELSE IF key \in MOVE_KEYS /\ st.mode = "PAN"
          THEN refresh_screen(Screen_move_origin(st, transform[1], transform[2]))
        ELSE IF key = INSERT_CELL THEN {GameOfLife_add_cell(st, cursor_position(st))}
        ELSE IF key = DELETE_CELL THEN {GameOfLife_remove_cell(st, cursor_position(st))}
        \* Screen has no redraw method.
        ELSE IF key = REFRESH THEN {Raise(st, "AttributeError")}
        ELSE IF key = INSERT_MODE THEN {[st EXCEPT !.mode = "INSERT"]}
        ELSE IF key = NORMAL_MODE THEN {[st EXCEPT !.mode = "NORMAL"]}
        ELSE IF key = PAN_MODE THEN {[st EXCEPT !.mode = "PAN"]}
        ELSE IF key = STEP THEN GameOfLife_step(st)
        ELSE IF key = SAVE_BOARD THEN {save_board(st)}
        ELSE IF key = LOAD_BOARD THEN load_board(st)
        ELSE {st}

\* dispatch_user_command where entering Pan mode also takes the origin back to (0, 0).
dispatch_user_command_pan_resets(st, key) ==
    IF key = QUIT THEN {[st |-> st, ret |-> FALSE]}
    ELSE {[st |-> IF key = PAN_MODE THEN [s EXCEPT !.origin = Point(0, 0)] ELSE s,
           ret |-> TRUE] : s \in dispatch_effects(st, key)}

\* GameOfLife.dispatch_user_command: the states it may leave, each with the value
\* returned (continue_execution) when no exception leaves it.
dispatch_user_command(st, key) ==
    IF key = QUIT THEN {[st |-> st, ret |-> FALSE]}
    ELSE {[st |-> s, ret |-> TRUE] : s \in dispatch_effects(st, key)}

-----------------------------------------------------------------------------
(* The session as a state machine: start() reads one key, dispatches it    *)
(* and reads the next one while dispatch_user_command returns True.        *)

\* The session's fields as one record.
Session ==
    [cell_positions |-> cell_positions, origin |-> origin,
     saved_cursor |-> saved_cursor, mode |-> mode, maxyx |-> maxyx, yx |-> yx,
     window |-> window, save_file |-> save_file, exc |-> exc]

\* GameOfLife.__init__ up to the call of start(): Screen(stdscr), Board(), Mode.NORMAL.
\* saved_cursor is set by the first save_cursor(); the value here is never read.
Constructed(extent, file) ==
    [cell_positions |-> {}, origin |-> Point(0, 0), saved_cursor |-> Point(0, 0),
     mode |-> "NORMAL", maxyx |-> extent, yx |-> Point(0, 0), window |-> {},
     save_file |-> file, exc |-> NoExc]

\* What SAVE_FILENAME may hold when the session starts.
InitialFiles ==
    { NoFile,
      NotJson,
      JsonObject(<< <<"0", ",", "1">>, <<"1", ";", "1">>, <<"1", ",", "0">> >>) }

SessionIs(st) ==
    /\ cell_positions = st.cell_positions
    /\ origin = st.origin
    /\ saved_cursor = st.saved_cursor
    /\ mode = st.mode
    /\ maxyx = st.maxyx
    /\ yx = st.yx
    /\ window = st.window
    /\ save_file = st.save_file
    /\ exc = st.exc

BoardIdle ==
    /\ b_op = <<"none">>
    /\ b_prev = {}
    /\ b_ret = "none"

\* The state when start() first waits for a key: the initial refresh_screen() is done.
Init ==
    /\ \E extent \in Extents, file \in InitialFiles :
           \E st \in refresh_screen(Constructed(extent, file)) : SessionIs(st)
    /\ input_key = ""
    /\ status = "running"
    /\ nkeys = 0
    /\ last_saved = [saved |-> FALSE, cells |-> {}]
    /\ record_log = <<>>
    /\ BoardIdle
    /\ before = [st |-> Session, repeated |-> FALSE]

\* One turn of the loop of start(): input_key is read and dispatched.
Dispatch(key) ==
    /\ status = "running"
    /\ nkeys < MaxKeys
    /\ \E r \in dispatch_user_command(Session, key) :
           /\ cell_positions' = r.st.cell_positions
           /\ origin' = r.st.origin
           /\ saved_cursor' = r.st.saved_cursor
           /\ mode' = r.st.mode
           /\ maxyx' = r.st.maxyx
           /\ yx' = r.st.yx
           /\ window' = r.st.window
           /\ save_file' = r.st.save_file
           /\ exc' = r.st.exc
           /\ status' = IF r.st.exc # NoExc THEN "raised"
                        ELSE IF r.ret THEN "running" ELSE "stopped"
    /\ input_key' = key
    /\ nkeys' = nkeys + 1
    /\ last_saved' = IF key = SAVE_BOARD
                     THEN [saved |-> TRUE, cells |-> cell_positions]
                     ELSE last_saved
    /\ b_prev' = cell_positions
    /\ before' = [st |-> Session, repeated |-> (key = input_key)]
    \* No command opens a file other than SAVE_FILENAME.
    /\ UNCHANGED <<record_log, b_op, b_ret>>

KeyQuit == Dispatch(QUIT)

KeyMoveNormal == mode = "NORMAL" /\ \E key \in MOVE_KEYS : Dispatch(key)

KeyMoveInsert == mode = "INSERT" /\ \E key \in MOVE_KEYS : Dispatch(key)

KeyMovePan == mode = "PAN" /\ \E key \in MOVE_KEYS : Dispatch(key)

KeyInsertCell == Dispatch(INSERT_CELL)

KeyDeleteCell == Dispatch(DELETE_CELL)

KeyRefresh == Dispatch(REFRESH)

KeyMode == \E key \in {INSERT_MODE, NORMAL_MODE, PAN_MODE} : Dispatch(key)

KeyStep == Dispatch(STEP)

KeySave == Dispatch(SAVE_BOARD)

KeyLoad == Dispatch(LOAD_BOARD)

KeyOther == \E key \in OtherKeys : Dispatch(key)

Next ==
    \/ KeyQuit
    \/ KeyMoveNormal
    \/ KeyMoveInsert
    \/ KeyMovePan
    \/ KeyInsertCell
    \/ KeyDeleteCell
    \/ KeyRefresh
    \/ KeyMode
    \/ KeyStep
    \/ KeySave
    \/ KeyLoad
    \/ KeyOther

Spec == Init /\ [][Next]_vars

-----------------------------------------------------------------------------
(* The Board on its own: a board built from any initial positions, and     *)
(* its methods called one after another, as the unit tests do.             *)

BoardUniverse == BoardCoords \X BoardCoords

\* Points far from the universe, with several digits and signs (tests.py adds (100, 100)).
FarPoints == {Point(100, 100), Point(-12, 7)}

\* The horizontal blinker, which lies across the edge of the universe, and the 3x3
\* box it turns in.
Blinker == {Point(1, 1), Point(1, 2), Point(1, 3)}

BlinkerBox == (0..2) \X (1..3)

RECURSIVE AddAll(_, _)
AddAll(cells, points) ==
    IF points = <<>> THEN cells
    ELSE AddAll(Board_add_cell(cells, points[1]).cells, Tail(points))

\* Board.__init__: every initial position is added to an empty dict.
Board_init(initial_positions) == AddAll({}, SortedPoints(initial_positions))

\* Boards whose snapshots are loaded.
SampleBoards ==
    { G \in SUBSET BoardUniverse : Cardinality(G) <= 1 }
        \cup { BoardUniverse,
               {Point(0, -1), Point(0, 0), Point(0, 1)},
               {Point(-1, -1), Point(1, 1)},
               {Point(100, 100), Point(0, 0)},
               {Point(-12, 7), Point(-1, -1), Point(10, -10)} }

\* Texts that are no snapshot: no JSON, no object, or an object with a key that is
\* not two integers separated by a comma.
MalformedTexts ==
    { NotJson,
      NotAMap,
      JsonObject(<< <<"0", ",", "1">>, <<"1", ";", "1">>, <<"1", ",", "0">> >>),
      JsonObject(<< <<"1">> >>),
      JsonObject(<< <<"1", ",", "0">>, <<"1", ",", "2", ",", "3">> >>),
      JsonObject(<< <<"a", ",", "1">> >>),
      JsonObject(<< <<"-", "1", ",", "-", "1">>, <<"-", ",", "1">> >>),
      JsonObject(<< <<",">> >>) }

BoardTexts == { serialize_board(G) : G \in SampleBoards } \cup MalformedTexts

Str(flag) == IF flag THEN "True" ELSE "False"

BoardCall(name, point, text) == [name |-> name, point |-> point, text |-> text]

\* The session's variables, which no Board method touches.
SessionIdle ==
    /\ origin = Point(0, 0)
    /\ saved_cursor = Point(0, 0)
    /\ mode = "NORMAL"
    /\ maxyx = <<2, 2>>
    /\ yx = Point(0, 0)
    /\ window = {}
    /\ save_file = NoFile
    /\ exc = NoExc
    /\ input_key = ""
    /\ nkeys = 0
    /\ last_saved = [saved |-> FALSE, cells |-> {}]
    /\ record_log = <<>>
    /\ before = [st |-> Constructed(maxyx, NoFile), repeated |-> FALSE]

sessionVars ==
    <<origin, saved_cursor, mode, maxyx, yx, window, save_file, input_key, status,
      exc, nkeys, last_saved, record_log>>

BoardInit ==
    /\ \E initial_positions \in (SUBSET BoardUniverse) \cup {Blinker} :
           cell_positions = Board_init(initial_positions)
    /\ SessionIdle
    /\ status = "board"
    /\ b_op = BoardCall("init", Point(0, 0), NoFile)
    /\ b_prev = {}
    /\ b_ret = "none"

\* The methods are exercised on boards inside the universe or inside the blinker's box.
BoardReady ==
    /\ status = "board"
    /\ cell_positions \subseteq BoardUniverse \/ cell_positions \subseteq BlinkerBox

CallAddCell(point) ==
    /\ BoardReady
    /\ cell_positions' = Board_add_cell(cell_positions, point).cells
    /\ b_ret' = Str(Board_add_cell(cell_positions, point).ret)
    /\ b_op' = BoardCall("add_cell", point, NoFile)
    /\ b_prev' = cell_positions
    /\ before' = [before EXCEPT !.repeated = (b_op' = b_op)]
    /\ UNCHANGED sessionVars

CallRemoveCell(point) ==
    /\ BoardReady
    /\ cell_positions' = Board_remove_cell(cell_positions, point).cells
    /\ b_ret' = Str(Board_remove_cell(cell_positions, point).ret)
    /\ b_op' = BoardCall("remove_cell", point, NoFile)
    /\ b_prev' = cell_positions
    /\ before' = [before EXCEPT !.repeated = (b_op' = b_op)]
    /\ UNCHANGED sessionVars

CallStep ==
    /\ BoardReady
    /\ cell_positions' = Board_step(cell_positions)
    /\ b_ret' = "None"
    /\ b_op' = BoardCall("step", Point(0, 0), NoFile)
    /\ b_prev' = cell_positions
    /\ before' = [before EXCEPT !.repeated = (b_op' = b_op)]
    /\ UNCHANGED sessionVars

CallLoad(text) ==
    /\ BoardReady
    /\ LET loaded == load_serialized_board(cell_positions, text)
       IN  /\ cell_positions' = loaded.cells
           /\ b_ret' = loaded.exc
    /\ b_op' = BoardCall("load_serialized_board", Point(0, 0), text)
    /\ b_prev' = cell_positions
    /\ before' = [before EXCEPT !.repeated = (b_op' = b_op)]
    /\ UNCHANGED sessionVars

BoardNext ==
    \/ \E point \in BoardUniverse \cup FarPoints : CallAddCell(point)
    \/ \E point \in BoardUniverse \cup FarPoints : CallRemoveCell(point)
    \/ CallStep
    \/ \E text \in BoardTexts : CallLoad(text)

SpecBoard == BoardInit /\ [][BoardNext]_vars

-----------------------------------------------------------------------------
(* The Screen on its own: a Screen over a window of some extent, its       *)
(* origin moved somewhere, and add_cell called with points on and off the  *)
(* window.                                                                 *)

\* Terminal sizes of the Screens add_cell is exercised on.
ScreenExtents == {<<2, 3>>, <<10, 10>>}

ScreenOrigins == {Point(0, 0), Point(5, 5), Point(-1, 2)}

\* Where the terminal cursor is when add_cell is called.
ScreenCursors == {Point(0, 0), Point(1, 2)}

\* The points add_cell is called with, as offsets from the origin: the corners and
\* the inside of the windows, and the positions just off each edge.
ScreenOffsets ==
    { Vector(0, 0), Vector(1, 1), Vector(1, 2), Vector(0, 3), Vector(2, 0),
      Vector(9, 9), Vector(9, 0), Vector(10, 0), Vector(0, 10), Vector(10, 10),
      Vector(-1, 0), Vector(0, -1), Vector(-5, -5) }

ScreenInit ==
    /\ \E extent \in ScreenExtents, o \in ScreenOrigins, cursor \in ScreenCursors :
           SessionIs([Constructed(extent, NoFile) EXCEPT !.origin = o, !.yx = cursor])
    /\ input_key = ""
    /\ status = "screen"
    /\ nkeys = 0
    /\ last_saved = [saved |-> FALSE, cells |-> {}]
    /\ record_log = <<>>
    /\ b_op = BoardCall("init", Point(0, 0), NoFile)
    /\ b_prev = {}
    /\ b_ret = "none"
    /\ before = [st |-> Session, repeated |-> FALSE]

\* One call of Screen.add_cell; no call follows one that raised.
CallScreenAddCell(point) ==
    /\ status = "screen"
    /\ exc = NoExc
    /\ LET st == Screen_add_cell(Session, point)
       IN  /\ cell_positions' = st.cell_positions
           /\ origin' = st.origin
           /\ saved_cursor' = st.saved_cursor
           /\ mode' = st.mode
           /\ maxyx' = st.maxyx
           /\ yx' = st.yx
           /\ window' = st.window
           /\ save_file' = st.save_file
           /\ exc' = st.exc
           /\ b_ret' = st.exc
    /\ b_op' = BoardCall("Screen.add_cell", point, NoFile)
    /\ b_prev' = cell_positions
    /\ before' = [st |-> Session, repeated |-> (b_op' = b_op)]
    /\ UNCHANGED <<input_key, status, nkeys, last_saved, record_log>>

ScreenNext == \E d \in ScreenOffsets : CallScreenAddCell(Translate(origin, d))

SpecScreen == ScreenInit /\ [][ScreenNext]_vars

-----------------------------------------------------------------------------
(* Properties.                                                             *)

Abs(n) == IF n < 0 THEN -n ELSE n

\* The live cells of G in the Moore neighbourhood of p.
LiveMoore(G, p) ==
    Cardinality({ q \in G : q # p /\ Abs(q[1] - p[1]) <= 1 /\ Abs(q[2] - p[2]) <= 1 })

\* The B3/S23 rule: p is live in the generation after G.
B3S23(G, p) ==
    \/ p \in G /\ LiveMoore(G, p) \in {2, 3}
    \/ p \notin G /\ LiveMoore(G, p) = 3

\* The universe with a margin of three cells on every side.
StepRegion ==
    { Point(r, c) : r \in { x + d : x \in BoardCoords, d \in -3..3 },
                    c \in { x + d : x \in BoardCoords, d \in -3..3 } }

OutsideBox(G, p) ==
    \/ \A q \in G : q[1] > p[1]
    \/ \A q \in G : q[1] < p[1]
    \/ \A q \in G : q[2] > p[2]
    \/ \A q \in G : q[2] < p[2]

\* C1: after Board.step() a coordinate is live iff the B3/S23 rule, applied to the
\* live set before the step, makes it live: a live cell with 2 or 3 live Moore
\* neighbours, or a dead cell with exactly 3, wherever it lies.
C1_StepIsB3S23 ==
    b_op.name = "step" =>
        /\ cell_positions \subseteq StepRegion
        /\ \A p \in StepRegion : p \in cell_positions <=> B3S23(b_prev, p)

\* A step that bore a cell outside the bounding box of the live cells, killed a
\* crowded cell and kept a survivor.
C1_Witness ==
    /\ b_op.name = "step"
    /\ \E p \in cell_positions \ b_prev : OutsideBox(b_prev, p)
    /\ \E p \in b_prev \ cell_positions : LiveMoore(b_prev, p) >= 4
    /\ \E p \in b_prev \cap cell_positions : TRUE

\* C2: a load of malformed text signals an error and leaves the live set as it was
\* before the load.
C2_LoadAllOrNothing ==
    (b_op.name = "load_serialized_board" /\ b_op.text \in MalformedTexts) =>
        /\ b_ret # NoExc
        /\ cell_positions = b_prev

\* C3: the load command with no save file signals the missing file, leaves the live
\* set, the origin, the mode and the cursor as they were, and the session goes on.
C3_MissingSlotLoad ==
    [][(status = "running" /\ save_file = NoFile /\ input_key' = LOAD_BOARD) =>
           /\ cell_positions' = cell_positions
           /\ origin' = origin
           /\ mode' = mode
           /\ yx' = yx
           /\ status' = "running"]_vars

\* C4: the loop of start() ends on the quit key and on nothing else: after the quit
\* key the session has stopped, after any other key it reads the next one.
C4_QuitOnlyWayOut ==
    nkeys > 0 => IF input_key = QUIT THEN status = "stopped" ELSE status = "running"

\* C5: after a load command that follows a save command, the live set is the live
\* set at the most recent save.
C5_LoadRestoresLastSave ==
    (input_key = LOAD_BOARD /\ last_saved.saved) => cell_positions = last_saved.cells

\* A load that brought back a saved cell removed since and dropped a cell added since.
C5_Witness ==
    /\ input_key = LOAD_BOARD
    /\ last_saved.saved
    /\ cell_positions \ b_prev # {}
    /\ b_prev \ cell_positions # {}

\* C6: loading serialize_board(G) into a board, whatever it held, leaves exactly G.
C6_RoundTrip ==
    \A G \in SampleBoards :
        (b_op.name = "load_serialized_board" /\ b_op.text = serialize_board(G)) =>
            /\ b_ret = NoExc
            /\ cell_positions = G

\* A snapshot with negative and several-digit coordinates loaded over other cells.
C6_Witness ==
    /\ b_op.name = "load_serialized_board"
    /\ cell_positions = {Point(-12, 7), Point(-1, -1), Point(10, -10)}
    /\ b_prev \ cell_positions # {}

\* C7: a step issued in Record mode appends the snapshot of the live set before the
\* step to the record log.  Command binds no key to a Record mode, so the key that
\* asks for it is one of OtherKeys; the step here is the command right after it.
C7_RecordedStepAppends ==
    [][(status = "running" /\ input_key \in OtherKeys /\ input_key' = STEP) =>
           record_log' = Append(record_log, serialize_board(cell_positions))]_vars

\* C8: in Insert mode a directional key marks the cursor's absolute coordinate live
\* and then moves the cursor as the same key does in Normal mode.
C8_InsertPaintsThenMoves ==
    [][(status = "running" /\ mode = "INSERT" /\ input_key' \in MOVE_KEYS) =>
           /\ cell_positions' = cell_positions \cup {cursor_position(Session)}
           /\ \A s \in dispatch_effects([Session EXCEPT !.mode = "NORMAL"], input_key') :
                  yx' = s.yx]_vars

\* C9: in Pan mode a directional key adds its displacement to the origin and leaves
\* the live set, the mode and the cursor alone; every other command leaves the origin.
C9_PanMovesOriginOnly ==
    [][status = "running" =>
           IF mode = "PAN" /\ input_key' \in MOVE_KEYS
           THEN /\ origin' = Translate(origin, cursor_transform_for_command(input_key'))
                /\ cell_positions' = cell_positions
                /\ mode' = mode
                /\ yx' = yx
           ELSE origin' = origin]_vars

\* The commands that render: insert-cell and delete-cell draw one cell, step, load and
\* a directional key in Pan mode redraw the window.
Renders(key) ==
    \/ key \in {INSERT_CELL, DELETE_CELL, STEP, LOAD_BOARD}
    \/ key \in MOVE_KEYS /\ mode = "PAN"

\* C10: when a command that renders returns, the terminal cursor is where it was.
C10_RenderKeepsCursor ==
    [][(status = "running" /\ status' = "running" /\ Renders(input_key')) => yx' = yx]_vars

\* The displacement a directional key stands for.
UnitDisplacement(key) ==
    CASE key = "KEY_LEFT"  -> <<0, -1>>
      [] key = "KEY_RIGHT" -> <<0, 1>>
      [] key = "KEY_UP"    -> <<-1, 0>>
      [] key = "KEY_DOWN"  -> <<1, 0>>

\* The screen position s lies inside the visible extent [0, rows) x [0, cols).
InExtent(s) == s[1] \in 0..(maxyx[1] - 1) /\ s[2] \in 0..(maxyx[2] - 1)

\* C11: in Normal mode a directional key moves the cursor by the direction's unit
\* displacement when the target is inside the visible extent and otherwise leaves it
\* where it is, with no error and the session going on; the live set, the origin and
\* the mode are unchanged either way.
C11_NormalMoveClamped ==
    (nkeys > 0 /\ before.st.mode = "NORMAL" /\ input_key \in MOVE_KEYS) =>
        LET target == <<before.st.yx[1] + UnitDisplacement(input_key)[1],
                        before.st.yx[2] + UnitDisplacement(input_key)[2]>>
        IN  /\ yx = IF InExtent(target) THEN target ELSE before.st.yx
            /\ exc = NoExc
            /\ status = "running"
            /\ cell_positions = before.st.cell_positions
            /\ origin = before.st.origin
            /\ mode = before.st.mode

\* A directional key ignored at the lower edge of the window, the cursor having been
\* moved off the home position, with a live cell on the board.
C11_Witness ==
    /\ nkeys > 0
    /\ before.st.mode = "NORMAL"
    /\ input_key = "KEY_DOWN"
    /\ yx = before.st.yx
    /\ yx = <<maxyx[1] - 1, maxyx[2] - 1>>
    /\ cell_positions # {}

ModeKeys == {"i", "n", "p"}

\* The mode a mode-switch key asks for.
RequestedMode(key) ==
    CASE key = "i" -> "INSERT"
      [] key = "n" -> "NORMAL"
      [] key = "p" -> "PAN"

\* C12: the mode starts as Normal; a mode-switch key, in any mode, sets the mode to
\* the requested one and changes nothing else of the session (live set, origin,
\* cursor, window, save file); the same mode-switch key twice in a row leaves the
\* state after the second as it was after the first.
C12_ModeSwitch ==
    /\ nkeys = 0 => mode = "NORMAL"
    /\ (nkeys > 0 /\ input_key \in ModeKeys) =>
           /\ Session = [before.st EXCEPT !.mode = RequestedMode(input_key)]
           /\ before.repeated => Session = before.st

\* The Insert-mode key right after the Insert-mode key, with a live cell on the board
\* and the origin panned away.
C12_Witness ==
    /\ nkeys > 0
    /\ input_key = "i"
    /\ before.repeated
    /\ cell_positions # {}
    /\ origin # <<0, 0>>

\* The absolute coordinate under the cursor before the last command: the screen
\* cursor plus the origin.
CursorCoordinate ==
    <<before.st.yx[1] + before.st.origin[1], before.st.yx[2] + before.st.origin[2]>>

\* C13: the insert-cell key makes the coordinate under the cursor live and the
\* delete-cell key makes it dead, in every mode and for every origin; neither moves
\* the cursor, changes the mode or the origin, or changes any other coordinate.
C13_InsertDeleteAtCursor ==
    (nkeys > 0 /\ input_key \in {"c", "x"}) =>
        /\ cell_positions = IF input_key = "c"
                            THEN before.st.cell_positions \cup {CursorCoordinate}
                            ELSE before.st.cell_positions \ {CursorCoordinate}
        /\ yx = before.st.yx
        /\ mode = before.st.mode
        /\ origin = before.st.origin

\* The delete-cell key in Pan mode, the origin panned away, on a live cell with
\* another live cell left on the board.
C13_Witness ==
    /\ nkeys > 0
    /\ input_key = "x"
    /\ status = "running"
    /\ mode = "PAN"
    /\ origin # <<0, 0>>
    /\ CursorCoordinate \in before.st.cell_positions
    /\ cell_positions # {}

\* C14: Board.add_cell(p) returns True iff p was dead; afterwards p is live, the live
\* count is one more if it returned True and the same if it returned False, no other
\* coordinate has changed, and add_cell(p) called again at once returns False.
C14_AddCell ==
    /\ [](b_op.name = "add_cell" =>
            /\ b_ret = IF b_op.point \in b_prev THEN "False" ELSE "True"
            /\ b_op.point \in cell_positions
            /\ Cardinality(cell_positions) =
                   Cardinality(b_prev) + (IF b_ret = "True" THEN 1 ELSE 0)
            /\ cell_positions \ {b_op.point} = b_prev \ {b_op.point})
    /\ [][(b_op.name = "add_cell" /\ b_op' = b_op) => b_ret' = "False"]_vars

\* add_cell(p) called again right after add_cell(p), on a board with other live cells.
C14_Witness ==
    /\ b_op.name = "add_cell"
    /\ b_ret = "False"
    /\ before.repeated
    /\ Cardinality(cell_positions) >= 3

\* C15: Board.remove_cell(p) returns True iff p was live; afterwards p is dead, the
\* live count is one less if it returned True and the same if it returned False, no
\* other coordinate has changed, and remove_cell(p) called again at once returns False.
C15_RemoveCell ==
    /\ [](b_op.name = "remove_cell" =>
            /\ b_ret = IF b_op.point \in b_prev THEN "True" ELSE "False"
            /\ b_op.point \notin cell_positions
            /\ Cardinality(cell_positions) =
                   Cardinality(b_prev) - (IF b_ret = "True" THEN 1 ELSE 0)
            /\ cell_positions \ {b_op.point} = b_prev \ {b_op.point})
    /\ [][(b_op.name = "remove_cell" /\ b_op' = b_op) => b_ret' = "False"]_vars

\* remove_cell(p) called again right after remove_cell(p), on a board with other live
\* cells.
C15_Witness ==
    /\ b_op.name = "remove_cell"
    /\ b_ret = "False"
    /\ before.repeated
    /\ Cardinality(cell_positions) >= 3

\* C16: Screen.add_cell(p) draws the cell glyph at the screen position p - origin iff
\* that position is inside the extent read at startup, and draws nothing otherwise.
\* With origin (5,5) and extent 10x10: (5,5) is drawn at (0,0), (14,14) at (9,9), and
\* (15,5) is not drawn.
C16_AddCellClipped ==
    b_op.name = "Screen.add_cell" =>
        LET s == <<b_op.point[1] - origin[1], b_op.point[2] - origin[2]>>
        IN  /\ window = IF InExtent(s) THEN before.st.window \cup {s} ELSE before.st.window
            /\ (origin = <<5, 5>> /\ maxyx = <<10, 10>>) =>
                   /\ b_op.point = <<5, 5>> => <<0, 0>> \in window
                   /\ b_op.point = <<14, 14>> => <<9, 9>> \in window
                   /\ b_op.point = <<15, 5>> => window = before.st.window

\* With origin (5,5) and extent 10x10, (14,14) has just been drawn at (9,9), after
\* (5,5) at (0,0).
C16_Witness ==
    /\ b_op.name = "Screen.add_cell"
    /\ origin = <<5, 5>>
    /\ maxyx = <<10, 10>>
    /\ b_op.point = <<14, 14>>
    /\ <<0, 0>> \in window
    /\ <<9, 9>> \in window \ before.st.window

\* The keys the commands of the claim are bound to: quit, the directional keys, the
\* mode-switch keys, insert-cell, delete-cell, step, save and load.
CommandKeys ==
    {"q", "KEY_LEFT", "KEY_RIGHT", "KEY_UP", "KEY_DOWN"} \cup ModeKeys
        \cup {"c", "x", " ", "s", "l"}

\* C17: a key that is none of the command keys is a no-op in every mode: the live
\* set, the origin, the mode, the cursor, the window and the save file are as they
\* were, and the session goes on.
C17_OtherKeyNoOp ==
    (nkeys > 0 /\ input_key \notin CommandKeys) =>
        /\ cell_positions = before.st.cell_positions
        /\ origin = before.st.origin
        /\ mode = before.st.mode
        /\ yx = before.st.yx
        /\ window = before.st.window
        /\ save_file = before.st.save_file
        /\ status = "running"

\* C18: the blinker has period 2: one step() from {(1,1),(1,2),(1,3)} leaves exactly
\* {(0,2),(1,2),(2,2)} and a step() from that leaves {(1,1),(1,2),(1,3)} again; a
\* single live cell steps to the empty set.
C18_Blinker ==
    b_op.name = "step" =>
        /\ b_prev = {<<1, 1>>, <<1, 2>>, <<1, 3>>} =>
               cell_positions = {<<0, 2>>, <<1, 2>>, <<2, 2>>}
        /\ b_prev = {<<0, 2>>, <<1, 2>>, <<2, 2>>} =>
               cell_positions = {<<1, 1>>, <<1, 2>>, <<1, 3>>}
        /\ Cardinality(b_prev) = 1 => cell_positions = {}

\* The second of two step() calls in a row, from the vertical triplet back to the
\* horizontal one.
C18_Witness ==
    /\ b_op.name = "step"
    /\ before.repeated
    /\ b_prev = {<<0, 2>>, <<1, 2>>, <<2, 2>>}
    /\ cell_positions = {<<1, 1>>, <<1, 2>>, <<1, 3>>}

\* C19: the mode is one of the modes of class Mode in every state, and only a
\* mode-switch key changes it: after a directional, insert-cell, delete-cell, step,
\* save or load key or any other key, in any mode, the mode is what it was.
C19_ModeOnlyBySwitch ==
    /\ mode \in {"INSERT", "NORMAL", "PAN"}
    /\ (nkeys > 0 /\ input_key \notin ModeKeys) => mode = before.st.mode

\* A step key in Pan mode that changed the live set.
C19_Witness ==
    /\ nkeys > 0
    /\ input_key = " "
    /\ mode = "PAN"
    /\ cell_positions # before.st.cell_positions

\* The screen positions inside the visible extent whose absolute coordinate is live.
LiveOnScreen ==
    { s \in (0..(maxyx[1] - 1)) \X (0..(maxyx[2] - 1)) :
          <<s[1] + origin[1], s[2] + origin[2]>> \in cell_positions }

\* C20: after the initial redraw and after every command that completed, a screen
\* position inside the visible extent shows the cell glyph iff its absolute coordinate
\* (the position plus the origin) is live, and is blank otherwise.
C20_DisplayConsistent ==
    status \in {"running", "stopped"} => window = LiveOnScreen

\* After a directional key in Pan mode: a live cell is shown, another has left the
\* window, and the glyphs are not where they were.
C20_Witness ==
    /\ status = "running"
    /\ nkeys > 0
    /\ input_key \in MOVE_KEYS
    /\ before.st.mode = "PAN"
    /\ window # {}
    /\ window # before.st.window
    /\ cell_positions \ { <<s[1] + origin[1], s[2] + origin[2]>> : s \in window } # {}

====
